---- MODULE Spec2Model ----
(***************************************************************************)
(* Model of src/chatbot.py: the Telegram front-end's registration state    *)
(* machine (start, handle_contact), its process-local user_cache, and the  *)
(* three interaction handlers (handle_message with its detached task,      *)
(* handle_files, handle_websearch) writing to the document store.          *)
(*                                                                         *)
(* One action is one uninterrupted run of a coroutine between two awaits:  *)
(* the pymongo calls are synchronous, so a handler's store and cache       *)
(* operations between two awaits form a single step.  Updates are          *)
(* processed one at a time (Application default), detached tasks created   *)
(* by handle_message run whenever the running coroutine awaits.            *)
(*                                                                         *)
(* Reply texts are the source's strings without their emoji.  Document     *)
(* fields that are written once and that no handler reads or changes are   *)
(* left out: first_name, username, registered_at and last_interaction of a *)
(* user document, timestamp of a chat_history, files or searches document. *)
(*                                                                         *)
(* cur and finished observe the handler run last and the task that         *)
(* returned last: the replies sent, whether an exception left the handler  *)
(* (raised), the number of users reads (reads), users inserts (inserts)    *)
(* and interaction documents written (wrote), and the failure of a         *)
(* collaborator the run met (fault).                                       *)
(*                                                                         *)
(* Spec is one run of the process on an empty store with a working store   *)
(* and transport; SpecFault lets users writes, sends and downloads raise;  *)
(* SpecReg is the registration state machine alone, over several runs of   *)
(* the process on the store the earlier runs left; SpecCache adds the text *)
(* tasks to it.  SpecText is the text handler and its tasks, scheduled     *)
(* fairly; SpecSearch the search command with every short command text;    *)
(* SpecExtract the three callers of extract_text_from_candidates at their  *)
(* backend call, with every small backend response.                        *)
(***************************************************************************)
EXTENDS Integers, Sequences, FiniteSets, TLC

\* ---------------------------------------------------------------- bounds
MaxUser   == 2     \* chat identities 1..MaxUser
MaxPhone  == 2     \* phone numbers 1..MaxPhone
MaxTime   == 2     \* datetime.now() returns 1..MaxTime
MaxEvents == 3     \* updates delivered by the transport
MaxLen    == 2     \* characters after the /websearch command token
MaxCand   == 2     \* candidates of a backend response
MaxSeg    == 2     \* text parts of a candidate

Ids    == 1..MaxUser
Phones == 1..MaxPhone
None   == 0        \* Python None in an integer field

\* contact.user_id is None for a contact that is no Telegram user
ContactIds == Ids \cup {None}

\* ---------------------------------------------------------------- inputs
Texts == {"hi"}

\* str.isspace characters
Whitespace == {" "}

\* the characters of a message text
Chars == Whitespace \cup {"a"}

\* what follows the command token in the text of a /websearch message:
\* every sequence of at most MaxLen characters
CommandTails == UNION {[1..n -> Chars] : n \in 0..MaxLen}

\* the two texts of /websearch that the full specifications deliver
SearchTexts == {<<>>, <<"a", " ", "b">>}

\* message.photo / message.document / neither
Kinds == {"photo", "document", "other"}

\* generate_content: raises (ok = FALSE), or returns ranked candidates, each
\* a sequence of text parts
BackendResults ==
    { [ok |-> FALSE, candidates |-> <<>>],
      [ok |-> TRUE,  candidates |-> << <<"A", "B">>, <<"C", "D">> >>] }

\* no response has come back from the backend
NoResponse == [ok |-> FALSE, candidates |-> <<>>]

\* the sequences of at most n elements of S
SeqsUpTo(S, n) == UNION {[1..k -> S] : k \in 0..n}

\* part.text of a part of a candidate
Segments == {"A", "B"}

\* what generate_content can return: every list of at most MaxCand
\* candidates of at most MaxSeg parts each; or it raises
Responses ==
    {[ok |-> TRUE, candidates |-> c] :
        c \in SeqsUpTo(SeqsUpTo(Segments, MaxSeg), MaxCand)}
    \cup {NoResponse}

\* ---------------------------------------------------------------- texts
FirstName(u) == "user" \o ToString(u)

Welcome(u) == "Welcome back " \o FirstName(u) \o "! Your registration is complete."
CompleteRegistration == "Please complete registration by sharing your contact"
ContactRequest ==
    "Verification Required\nTo use this bot, please share your phone number for security:"
OwnContactWarning == "Please only share your own contact information."
VerificationSuccess == "Phone verification successful!\nYou can now access all bot features."
VerificationFailed == "Verification failed. Please try /start again"
FollowUp == "Is there anything else I can help you with?"
MessageApology == "Sorry, I couldn't process your request. Please try again."
UnsupportedFile == "Unsupported file type"
FileApology == "Failed to analyze file"
SearchUsage == "Usage: /websearch <your query here>"
NoCandidates == "No candidates returned."

\* ---------------------------------------------------------------- state
VARIABLES
    users,         \* db.users: documents in insertion order
    user_cache,    \* user_cache: chat id -> cached user document
    chat_history,  \* db.chat_history
    files,         \* db.files
    searches,      \* db.searches
    now,           \* the value datetime.now() returned last
    cur,           \* the update handler run by the event loop (inline)
    tasks,         \* running generate_and_send_response tasks
    finished,      \* the task that returned last
    nEvents,       \* updates delivered so far
    confirmed      \* identities this process handled a successful contact
                   \* share of

vars == <<users, user_cache, chat_history, files, searches, now, cur, tasks,
          finished, nEvents, confirmed>>

\* ---------------------------------------------------------------- store
Min(S) == CHOOSE x \in S : \A y \in S : x <= y

\* the documents of coll whose chat_id is id: the lookup of find_one,
\* update_one and the unique index
Matching_wrongkey(coll, id) == {}

Matching(coll, id) == {i \in 1..Len(coll) : coll[i].chat_id = id}

\* users.find_one({"chat_id": id}): <<>> is None, <<doc>> a document
find_one(coll, id) ==
    IF Matching(coll, id) = {} THEN <<>> ELSE <<coll[Min(Matching(coll, id))]>>

\* users.insert_one(doc) under the unique index on chat_id:
\* ok = FALSE is DuplicateKeyError
insert_one(coll, doc) ==
    IF Matching(coll, doc.chat_id) # {}
    THEN [ok |-> FALSE, coll |-> coll]
    ELSE [ok |-> TRUE, coll |-> Append(coll, doc)]

\* the $set document of handle_contact
ContactSet_nophone(doc, phone, t) ==
    [doc EXCEPT !.status = "verified", !.phone_verified_at = t]

ContactSet_nostatus(doc, phone, t) ==
    [doc EXCEPT !.phone_number = phone, !.phone_verified_at = t]

ContactSet(doc, phone, t) ==
    [doc EXCEPT !.phone_number = phone, !.status = "verified",
                !.phone_verified_at = t]

\* update_one(..., upsert=True)
update_one_upsert(coll, id, phone, t) ==
    IF Matching(coll, id) = {}
    THEN [coll |-> Append(coll, [chat_id |-> id, status |-> "verified",
                                 phone_number |-> phone,
                                 phone_verified_at |-> t]),
          modified_count |-> 0]
    ELSE LET i   == Min(Matching(coll, id))
             new == ContactSet(coll[i], phone, t)
         IN  [coll |-> [coll EXCEPT ![i] = new],
              modified_count |-> IF new = coll[i] THEN 0 ELSE 1]

\* update_one with the filter {"chat_id": id, "status": "pending_contact"}
update_one_pending(coll, id, phone, t) ==
    IF {i \in Matching(coll, id) : coll[i].status = "pending_contact"} = {}
    THEN [coll |-> coll, modified_count |-> 0]
    ELSE LET i   == Min(Matching(coll, id))
             new == ContactSet(coll[i], phone, t)
         IN  [coll |-> [coll EXCEPT ![i] = new],
              modified_count |-> IF new = coll[i] THEN 0 ELSE 1]

\* users.update_one({"chat_id": id}, {"$set": ...}): the first matching
\* document is updated; modified_count counts the documents whose content
\* changed
update_one(coll, id, phone, t) ==
    IF Matching(coll, id) = {}
    THEN [coll |-> coll, modified_count |-> 0]
    ELSE LET i   == Min(Matching(coll, id))
             new == ContactSet(coll[i], phone, t)
         IN  [coll |-> [coll EXCEPT ![i] = new],
              modified_count |-> IF new = coll[i] THEN 0 ELSE 1]

\* a document inserted with the default status of line 72
NewUser_new(u) ==
    [chat_id |-> u, status |-> "new", phone_number |-> None,
     phone_verified_at |-> None]

\* the document start inserts
NewUser(u) ==
    [chat_id |-> u, status |-> "pending_contact", phone_number |-> None,
     phone_verified_at |-> None]

\* user_cache.setdefault(id, doc): an entry that exists is kept
CachePut_keep(cache, id, doc) ==
    [x \in DOMAIN cache \cup {id} |-> IF x \in DOMAIN cache THEN cache[x] ELSE doc]

\* user_cache[id] = doc
CachePut_skip(cache, id, doc) == cache

CachePut(cache, id, doc) ==
    [x \in DOMAIN cache \cup {id} |-> IF x = id THEN doc ELSE cache[x]]

\* ---------------------------------------------------------------- helpers
RECURSIVE JoinWith(_, _)
\* sep.join(parts)
JoinWith(sep, parts) ==
    IF parts = <<>> THEN ""
    ELSE IF Len(parts) = 1 THEN parts[1]
    ELSE parts[1] \o sep \o JoinWith(sep, Tail(parts))

RECURSIVE SplitWords_keep(_, _)
\* str.split(" "): every single space separates, empty words are kept
SplitWords_keep(chars, word) ==
    IF chars = <<>> THEN <<word>>
    ELSE IF Head(chars) \in Whitespace
         THEN <<word>> \o SplitWords_keep(Tail(chars), "")
         ELSE SplitWords_keep(Tail(chars), word \o Head(chars))

Split_keep(chars) == SplitWords_keep(chars, "")

RECURSIVE SplitWords(_, _)
\* the words of chars after the unfinished word: maximal runs of
\* characters that are no whitespace
SplitWords(chars, word) ==
    IF chars = <<>> THEN (IF word = "" THEN <<>> ELSE <<word>>)
    ELSE IF Head(chars) \in Whitespace
         THEN (IF word = "" THEN <<>> ELSE <<word>>)
              \o SplitWords(Tail(chars), "")
         ELSE SplitWords(Tail(chars), word \o Head(chars))

\* context.args (line 204): CommandHandler passes message.text.split()[1:],
\* the words after the command token
Split(chars) == SplitWords(chars, "")

RECURSIVE JoinAll(_)
\* the parts of every candidate, concatenated
JoinAll(candidates) ==
    IF candidates = <<>> THEN ""
    ELSE JoinWith("", Head(candidates)) \o JoinAll(Tail(candidates))

\* extract_text_from_candidates reading every candidate, not candidates[0]
extract_text_from_all(response) ==
    IF response.candidates = <<>> THEN NoCandidates
    ELSE JoinAll(response.candidates)

\* extract_text_from_candidates(response)
extract_text_from_candidates(response) ==
    IF response.candidates = <<>> THEN NoCandidates
    ELSE JoinWith("", response.candidates[1])

\* the path download_to_drive returns for the attachment
FilePath(kind) == IF kind = "photo" THEN "file_0.jpg" ELSE "file_1.bin"

\* mimetypes.guess_type(path)[0] or 'application/octet-stream', as
\* <<type, subtype>>
MimeType(path) ==
    IF path = "file_0.jpg" THEN <<"image", "jpeg">>
    ELSE <<"application", "octet-stream">>

\* mime_type.split('/')[-1]
FileType(mime) == mime[Len(mime)]

\* ---------------------------------------------------------------- handlers
\* no update is being handled
Idle ==
    [handler |-> "none", user |-> None, pc |-> "idle", branch |-> "",
     pending |-> "", replies |-> <<>>, raised |-> FALSE, reads |-> 0,
     inserts |-> 0, wrote |-> 0, fault |-> "none", phone |-> None,
     input |-> "", text |-> <<>>, raw_response |-> NoResponse]

\* datetime.now() does not go back: the values it can return next
Clock == now..MaxTime

\* CanDeliver of a loop that awaits the text tasks before the next update
CanDeliver_blocking ==
    cur.pc \in {"idle", "done"} /\ nEvents < MaxEvents /\ tasks = <<>>

\* the loop fetches the next update once the previous handler returned
CanDeliver == cur.pc \in {"idle", "done"} /\ nEvents < MaxEvents

\* a handler that stops at `await update.message.reply_text(msg)`
Awaiting(h, u, branch, msg) ==
    [Idle EXCEPT !.handler = h, !.user = u, !.pc = "send", !.branch = branch,
                 !.pending = msg]

\* a handler left by an exception of a users write, which no except clause
\* of it catches
Raised(h, u, branch) ==
    [Idle EXCEPT !.handler = h, !.user = u, !.pc = "done", !.branch = branch,
                 !.raised = TRUE, !.fault = "store_write"]

\* line 61: `if not existing_user`
NotExisting(existing) == existing = <<>>

\* line 72-73: status = existing_user.get("status", "new");
\* status == "pending_contact"
IsPendingContact_typo(doc) == doc.status = "pending"

IsPendingContact(doc) == doc.status = "pending_contact"

\* start with lines 76 and 77 in the other order: the reply is awaited
\* before the cache entry is written, and the delivering step leaves the
\* cache as it was
start_yield(u, storeOk) ==
    /\ CanDeliver
    /\ nEvents' = nEvents + 1
    /\ UNCHANGED <<chat_history, files, searches, now, tasks, finished,
                   confirmed, user_cache>>
    /\ IF u \in DOMAIN user_cache
       THEN /\ cur' = Awaiting("start", u, "cache", Welcome(u))
            /\ UNCHANGED users
       ELSE LET existing == find_one(users, u)
                ins      == insert_one(users, NewUser(u))
            IN  IF NotExisting(existing)
                THEN /\ users' = ins.coll
                     /\ cur' = [Awaiting("start", u, "new", ContactRequest)
                                  EXCEPT !.reads = 1, !.inserts = 1]
                ELSE /\ cur' = [Awaiting("start", u,
                                    IF IsPendingContact(existing[1])
                                    THEN "pending" ELSE "registered",
                                    IF IsPendingContact(existing[1])
                                    THEN CompleteRegistration ELSE Welcome(u))
                                  EXCEPT !.reads = 1]
                     /\ UNCHANGED users

\* start, lines 52-77 up to the awaited reply; storeOk = FALSE makes
\* users.insert_one raise
start(u, storeOk) ==
    /\ CanDeliver
    /\ nEvents' = nEvents + 1
    /\ UNCHANGED <<chat_history, files, searches, now, tasks, finished,
                   confirmed>>
    /\ IF u \in DOMAIN user_cache
       THEN /\ cur' = Awaiting("start", u, "cache", Welcome(u))
            /\ UNCHANGED <<users, user_cache>>
       ELSE LET existing == find_one(users, u)
                ins      == insert_one(users, NewUser(u))
            IN  IF NotExisting(existing)
                THEN IF storeOk /\ ins.ok
                     THEN /\ users' = ins.coll
                          /\ cur' = [Awaiting("start", u, "new", ContactRequest)
                                       EXCEPT !.reads = 1, !.inserts = 1]
                          /\ UNCHANGED user_cache
                     ELSE /\ cur' = [Raised("start", u, "new") EXCEPT !.reads = 1]
                          /\ UNCHANGED <<users, user_cache>>
                ELSE IF IsPendingContact(existing[1])
                     THEN /\ cur' = [Awaiting("start", u, "pending",
                                              CompleteRegistration)
                                       EXCEPT !.reads = 1]
                          /\ UNCHANGED <<users, user_cache>>
                     ELSE /\ user_cache' = CachePut(user_cache, u, existing[1])
                          /\ cur' = [Awaiting("start", u, "registered", Welcome(u))
                                       EXCEPT !.reads = 1]
                          /\ UNCHANGED users

\* line 95: contact.user_id != update.effective_user.id
ContactMismatch_off(contact_id, u) == FALSE

ContactMismatch(contact_id, u) == contact_id # u

\* handle_contact, lines 89-97: the contact is not the sender's own and the
\* handler returns after the awaited warning
handle_contact_reject(u, contact_id) ==
    /\ CanDeliver
    /\ ContactMismatch(contact_id, u)
    /\ nEvents' = nEvents + 1
    /\ cur' = Awaiting("handle_contact", u, "mismatch", OwnContactWarning)
    /\ UNCHANGED <<users, user_cache, chat_history, files, searches, now,
                   tasks, finished, confirmed>>

\* handle_contact, lines 89-112 past the security validation, up to the
\* awaited reply; t is the value of datetime.now() at line 104, storeOk =
\* FALSE makes users.update_one raise
handle_contact(u, contact_id, phone, t, storeOk) ==
    /\ CanDeliver
    /\ ~ContactMismatch(contact_id, u)
    /\ t \in Clock
    /\ nEvents' = nEvents + 1
    /\ now' = t
    /\ UNCHANGED <<chat_history, files, searches, tasks, finished>>
    /\ LET h(c) == [c EXCEPT !.phone = phone]
           upd  == update_one(users, contact_id, phone, t)
       IN  IF ~storeOk
           THEN /\ cur' = h(Raised("handle_contact", u, "update"))
                /\ UNCHANGED <<users, user_cache, confirmed>>
           ELSE IF upd.modified_count = 1
           THEN /\ users' = upd.coll
                /\ user_cache' = CachePut(user_cache, contact_id,
                                          find_one(upd.coll, contact_id)[1])
                /\ cur' = h([Awaiting("handle_contact", u, "success",
                                      VerificationSuccess) EXCEPT !.reads = 1])
                /\ confirmed' = confirmed \cup {u}
           ELSE /\ users' = upd.coll
                /\ cur' = h(Awaiting("handle_contact", u, "failed",
                                     VerificationFailed))
                /\ UNCHANGED <<user_cache, confirmed>>

\* the awaited reply_text of an inline handler returns (sendOk) or raises:
\* handle_files catches the exception (lines 187-189), the others do not
SendDone(sendOk) ==
    /\ cur.pc = "send"
    /\ UNCHANGED <<users, user_cache, chat_history, files, searches, now,
                   tasks, finished, nEvents, confirmed>>
    /\ cur' = IF sendOk
              THEN [cur EXCEPT !.pc = "done",
                               !.replies = Append(@, cur.pending)]
              ELSE IF cur.handler = "handle_files"
              THEN [cur EXCEPT !.pc = "done", !.fault = "send",
                               !.replies = Append(@, FileApology)]
              ELSE [cur EXCEPT !.pc = "done", !.fault = "send",
                               !.raised = TRUE]

\* a generate_and_send_response task before its first step, for the update
\* numbered id (the `update` argument of line 121)
NewTask(id, u, text) ==
    [update_id |-> id, user_id |-> u, user_message |-> text, pc |-> "backend",
     raw_response |-> NoResponse, response |-> "", replies |-> <<>>,
     wrote |-> 0, fault |-> "none"]

\* no task has returned yet
NoTask == [NewTask(None, None, "") EXCEPT !.pc = "none"]

\* the sequence without its i-th element
Remove(seq, i) == SubSeq(seq, 1, i - 1) \o SubSeq(seq, i + 1, Len(seq))

\* handle_message behind a check of the sender's registration: a sender
\* whose record is not verified is told to register and no task is created
handle_message_gated(u, text) ==
    /\ CanDeliver
    /\ nEvents' = nEvents + 1
    /\ UNCHANGED <<users, user_cache, chat_history, files, searches, now,
                   finished, confirmed>>
    /\ LET existing == find_one(users, u)
       IN  IF existing # <<>> /\ existing[1].status = "verified"
           THEN /\ cur' = [Idle EXCEPT !.handler = "handle_message",
                                       !.user = u, !.pc = "done",
                                       !.branch = "task", !.input = text]
                /\ tasks' = Append(tasks, NewTask(nEvents + 1, u, text))
           ELSE /\ cur' = Awaiting("handle_message", u, "gated",
                                   CompleteRegistration)
                /\ UNCHANGED tasks

\* handle_message, lines 117-121: create the task and return
handle_message(u, text) ==
    /\ CanDeliver
    /\ nEvents' = nEvents + 1
    /\ cur' = [Idle EXCEPT !.handler = "handle_message", !.user = u,
                           !.pc = "done", !.branch = "task", !.input = text]
    /\ tasks' = Append(tasks, NewTask(nEvents + 1, u, text))
    /\ UNCHANGED <<users, user_cache, chat_history, files, searches, now,
                   finished, confirmed>>

\* generate_and_send_response, lines 127-139: the backend call returns and
\* the exchange is stored, or the call raises and the except clause
\* apologises (lines 145-147)
TaskBackend(i, result) ==
    /\ i \in 1..Len(tasks)
    /\ tasks[i].pc = "backend"
    /\ UNCHANGED <<users, user_cache, files, searches, now, cur, nEvents,
                   confirmed>>
    /\ IF result.ok
       THEN LET gemini_response == extract_text_from_candidates(result)
            IN  /\ chat_history' = Append(chat_history,
                       [user_id |-> tasks[i].user_id,
                        input |-> tasks[i].user_message,
                        response |-> gemini_response])
                /\ tasks' = [tasks EXCEPT ![i].pc = "reply", ![i].wrote = 1,
                                          ![i].response = gemini_response]
                /\ UNCHANGED finished
       ELSE /\ finished' = [tasks[i] EXCEPT !.pc = "done", !.fault = "backend",
                               !.replies = Append(@, MessageApology)]
            /\ tasks' = Remove(tasks, i)
            /\ UNCHANGED chat_history

\* lines 139-142: the awaited reply returns and the task sleeps, or the
\* reply raises and the except clause apologises
TaskReplySent(i, sendOk) ==
    /\ i \in 1..Len(tasks)
    /\ tasks[i].pc = "reply"
    /\ UNCHANGED <<users, user_cache, chat_history, files, searches, now, cur,
                   nEvents, confirmed>>
    /\ IF sendOk
       THEN /\ tasks' = [tasks EXCEPT ![i].pc = "sleep",
                            ![i].replies = Append(@, tasks[i].response)]
            /\ UNCHANGED finished
       ELSE /\ finished' = [tasks[i] EXCEPT !.pc = "done", !.fault = "send",
                               !.replies = Append(@, MessageApology)]
            /\ tasks' = Remove(tasks, i)

\* TaskFollowUp without the order of lines 139-144: the follow-up goes out
\* whether or not the reply was sent
TaskFollowUp_early(i, sendOk) ==
    /\ i \in 1..Len(tasks)
    /\ tasks[i].pc \in {"reply", "sleep"}
    /\ UNCHANGED <<users, user_cache, chat_history, files, searches, now, cur,
                   nEvents, confirmed>>
    /\ tasks' = Remove(tasks, i)
    /\ finished' = [tasks[i] EXCEPT !.pc = "done",
                                    !.replies = Append(@, FollowUp)]

\* lines 142-147: the sleep is over and the follow-up is sent, or its send
\* raises and the except clause apologises; the task returns
TaskFollowUp(i, sendOk) ==
    /\ i \in 1..Len(tasks)
    /\ tasks[i].pc = "sleep"
    /\ UNCHANGED <<users, user_cache, chat_history, files, searches, now, cur,
                   nEvents, confirmed>>
    /\ tasks' = Remove(tasks, i)
    /\ finished' = IF sendOk
                   THEN [tasks[i] EXCEPT !.pc = "done",
                                         !.replies = Append(@, FollowUp)]
                   ELSE [tasks[i] EXCEPT !.pc = "done", !.fault = "send",
                                         !.replies = Append(@, MessageApology)]

\* handle_files, lines 152-162 up to the awaited get_file
handle_files(u, kind) ==
    /\ CanDeliver
    /\ nEvents' = nEvents + 1
    /\ UNCHANGED <<users, user_cache, chat_history, files, searches, now,
                   tasks, finished, confirmed>>
    /\ cur' = IF kind = "other"
              THEN [Awaiting("handle_files", u, "unsupported", UnsupportedFile)
                      EXCEPT !.input = kind]
              ELSE [Idle EXCEPT !.handler = "handle_files", !.user = u,
                                !.pc = "download", !.branch = "analyze",
                                !.input = kind]

\* lines 162-175: get_file and download_to_drive return and the backend is
\* called, or they raise (lines 187-189)
FilesDownload(downloadOk) ==
    /\ cur.handler = "handle_files"
    /\ cur.pc = "download"
    /\ UNCHANGED <<users, user_cache, chat_history, files, searches, now,
                   tasks, finished, nEvents, confirmed>>
    /\ cur' = IF downloadOk
              THEN [cur EXCEPT !.pc = "backend"]
              ELSE [cur EXCEPT !.pc = "done", !.fault = "download",
                               !.replies = Append(@, FileApology)]

\* lines 175-186: the backend call returns, the analysis is stored and the
\* reply awaited, or the call raises (lines 187-189)
FilesBackend(result) ==
    /\ cur.handler = "handle_files"
    /\ cur.pc = "backend"
    /\ UNCHANGED <<users, user_cache, chat_history, searches, now, tasks,
                   finished, nEvents, confirmed>>
    /\ IF result.ok
       THEN LET path     == FilePath(cur.input)
                mime     == MimeType(path)
                analysis == extract_text_from_candidates(result)
            IN  /\ files' = Append(files,
                       [user_id |-> cur.user, filename |-> path,
                        file_type |-> FileType(mime), analysis |-> analysis])
                /\ cur' = [cur EXCEPT !.pc = "send", !.wrote = 1,
                              !.pending = "Analysis Result:\n" \o analysis]
       ELSE /\ cur' = [cur EXCEPT !.pc = "done", !.fault = "backend",
                                  !.replies = Append(@, FileApology)]
            /\ UNCHANGED files

\* line 205: `if not query`
EmptyQuery(query) == query = ""

\* handle_websearch, lines 204-211 up to the awaited backend call
handle_websearch(u, text) ==
    /\ CanDeliver
    /\ nEvents' = nEvents + 1
    /\ UNCHANGED <<users, user_cache, chat_history, files, searches, now,
                   tasks, finished, confirmed>>
    /\ LET args  == Split(text)
           query == JoinWith(" ", args)
       IN  cur' = IF EmptyQuery(query)
                  THEN [Awaiting("handle_websearch", u, "usage", SearchUsage)
                          EXCEPT !.text = text]
                  ELSE [Idle EXCEPT !.handler = "handle_websearch",
                                    !.user = u, !.pc = "backend",
                                    !.branch = "search", !.input = query,
                                    !.text = text]

\* lines 211-221: the backend call returns, the search is stored and the
\* reply awaited, or the call raises out of the handler (no try)
SearchBackend(result) ==
    /\ cur.handler = "handle_websearch"
    /\ cur.pc = "backend"
    /\ UNCHANGED <<users, user_cache, chat_history, files, now, tasks,
                   finished, nEvents, confirmed>>
    /\ IF result.ok
       THEN LET gemini_response == extract_text_from_candidates(result)
            IN  /\ searches' = Append(searches,
                       [user_id |-> cur.user, query |-> cur.input,
                        result |-> gemini_response])
                /\ cur' = [cur EXCEPT !.pc = "send", !.wrote = 1,
                              !.pending = "Search Results:\n" \o gemini_response]
       ELSE /\ cur' = [cur EXCEPT !.pc = "done", !.fault = "backend",
                                  !.raised = TRUE]
            /\ UNCHANGED searches

\* a new run of the process on the store the earlier runs left: the module
\* state of lines 46-47 is built anew, the tasks of the earlier run are
\* gone, the store keeps its documents
Restart ==
    /\ user_cache' = <<>>
    /\ cur' = Idle
    /\ tasks' = <<>>
    /\ finished' = NoTask
    /\ confirmed' = {}
    /\ UNCHANGED <<users, chat_history, files, searches, now, nEvents>>

\* ---------------------------------------------------------------- specs
\* lines 22-47: empty collections, empty cache
Init ==
    /\ users = <<>>
    /\ user_cache = <<>>
    /\ chat_history = <<>>
    /\ files = <<>>
    /\ searches = <<>>
    /\ now = 1
    /\ cur = Idle
    /\ tasks = <<>>
    /\ finished = NoTask
    /\ nEvents = 0
    /\ confirmed = {}

\* the store and the transport work; the backend may fail
Next ==
    \/ \E u \in Ids : start(u, TRUE)
    \/ \E u \in Ids, c \in ContactIds : handle_contact_reject(u, c)
    \/ \E u \in Ids, c \in ContactIds, p \in Phones, t \in 1..MaxTime :
           handle_contact(u, c, p, t, TRUE)
    \/ SendDone(TRUE)
    \/ \E u \in Ids, t \in Texts : handle_message(u, t)
    \/ \E i \in DOMAIN tasks, r \in BackendResults : TaskBackend(i, r)
    \/ \E i \in DOMAIN tasks : TaskReplySent(i, TRUE)
    \/ \E i \in DOMAIN tasks : TaskFollowUp(i, TRUE)
    \/ \E u \in Ids, k \in Kinds : handle_files(u, k)
    \/ FilesDownload(TRUE)
    \/ \E r \in BackendResults : FilesBackend(r)
    \/ \E u \in Ids, a \in SearchTexts : handle_websearch(u, a)
    \/ \E r \in BackendResults : SearchBackend(r)

Spec == Init /\ [][Next]_vars

\* as Next, and a users write, a send or a download may raise
NextFault ==
    \/ \E u \in Ids, ok \in BOOLEAN : start(u, ok)
    \/ \E u \in Ids, c \in ContactIds : handle_contact_reject(u, c)
    \/ \E u \in Ids, c \in ContactIds, p \in Phones, t \in 1..MaxTime,
          ok \in BOOLEAN : handle_contact(u, c, p, t, ok)
    \/ \E ok \in BOOLEAN : SendDone(ok)
    \/ \E u \in Ids, t \in Texts : handle_message(u, t)
    \/ \E i \in DOMAIN tasks, r \in BackendResults : TaskBackend(i, r)
    \/ \E i \in DOMAIN tasks, ok \in BOOLEAN : TaskReplySent(i, ok)
    \/ \E i \in DOMAIN tasks, ok \in BOOLEAN : TaskFollowUp(i, ok)
    \/ \E u \in Ids, k \in Kinds : handle_files(u, k)
    \/ \E ok \in BOOLEAN : FilesDownload(ok)
    \/ \E r \in BackendResults : FilesBackend(r)
    \/ \E u \in Ids, a \in SearchTexts : handle_websearch(u, a)
    \/ \E r \in BackendResults : SearchBackend(r)

SpecFault == Init /\ [][NextFault]_vars

\* the registration state machine alone: entry and contact-share updates,
\* over several runs of the process on the same store
NextReg ==
    \/ \E u \in Ids : start(u, TRUE)
    \/ \E u \in Ids, c \in ContactIds : handle_contact_reject(u, c)
    \/ \E u \in Ids, c \in ContactIds, p \in Phones, t \in 1..MaxTime :
           handle_contact(u, c, p, t, TRUE)
    \/ SendDone(TRUE)
    \/ Restart

SpecReg == Init /\ [][NextReg]_vars

\* text messages alone: the reply of a task may fail to be sent; the send
\* of the follow-up itself succeeds
NextText ==
    \/ \E u \in Ids, t \in Texts : handle_message(u, t)
    \/ \E i \in DOMAIN tasks, r \in BackendResults : TaskBackend(i, r)
    \/ \E i \in DOMAIN tasks, ok \in BOOLEAN : TaskReplySent(i, ok)
    \/ \E i \in DOMAIN tasks : TaskFollowUp(i, TRUE)

\* a step of the task created for update id (line 121)
TaskStep(id) ==
    \E i \in DOMAIN tasks :
        /\ tasks[i].update_id = id
        /\ \/ \E r \in BackendResults : TaskBackend(i, r)
           \/ \E ok \in BOOLEAN : TaskReplySent(i, ok)
           \/ TaskFollowUp(i, TRUE)

\* the event loop runs every task that is ready: the backend thread of
\* line 128 returns, the awaited sends return, the sleep of line 142 ends
SpecText ==
    Init /\ [][NextText]_vars /\ \A id \in 1..MaxEvents : WF_vars(TaskStep(id))

\* the search command alone, with every text of at most MaxLen characters
\* after the command token
NextSearch ==
    \/ \E u \in Ids, text \in CommandTails : handle_websearch(u, text)
    \/ \E r \in BackendResults : SearchBackend(r)
    \/ SendDone(TRUE)

SpecSearch == Init /\ [][NextSearch]_vars

\* one update is being handled and the backend's answer to it is on its
\* way: the text task, the file handler or the search handler is at its
\* backend call, for every sender and every response
InitExtract ==
    /\ users = <<>> /\ user_cache = <<>> /\ chat_history = <<>>
    /\ files = <<>> /\ searches = <<>> /\ now = 1
    /\ finished = NoTask /\ nEvents = 1 /\ confirmed = {}
    /\ \E u \in Ids, r \in Responses :
          \/ /\ cur = [Idle EXCEPT !.handler = "handle_message", !.user = u,
                                   !.pc = "done", !.branch = "task",
                                   !.input = "hi"]
             /\ tasks = <<[NewTask(1, u, "hi") EXCEPT !.raw_response = r]>>
          \/ /\ cur = [Idle EXCEPT !.handler = "handle_files", !.user = u,
                                   !.pc = "backend", !.branch = "analyze",
                                   !.input = "photo", !.raw_response = r]
             /\ tasks = <<>>
          \/ /\ cur = [Idle EXCEPT !.handler = "handle_websearch",
                                   !.user = u, !.pc = "backend",
                                   !.branch = "search", !.input = "a",
                                   !.text = <<"a">>, !.raw_response = r]
             /\ tasks = <<>>

\* the handler or task goes on from its backend call with that response
NextExtract ==
    \/ \E i \in DOMAIN tasks : TaskBackend(i, tasks[i].raw_response)
    \/ \E i \in DOMAIN tasks : TaskReplySent(i, TRUE)
    \/ \E i \in DOMAIN tasks : TaskFollowUp(i, TRUE)
    \/ FilesBackend(cur.raw_response)
    \/ SearchBackend(cur.raw_response)
    \/ SendDone(TRUE)

SpecExtract == InitExtract /\ [][NextExtract]_vars

\* the registration handlers over several runs of the process, with text
\* messages whose tasks run between the steps of the handlers
NextCache ==
    \/ \E u \in Ids : start(u, TRUE)
    \/ \E u \in Ids, c \in ContactIds : handle_contact_reject(u, c)
    \/ \E u \in Ids, c \in ContactIds, p \in Phones, t \in 1..MaxTime :
           handle_contact(u, c, p, t, TRUE)
    \/ SendDone(TRUE)
    \/ \E u \in Ids, t \in Texts : handle_message(u, t)
    \/ \E i \in DOMAIN tasks, r \in BackendResults : TaskBackend(i, r)
    \/ \E i \in DOMAIN tasks : TaskReplySent(i, TRUE)
    \/ \E i \in DOMAIN tasks : TaskFollowUp(i, TRUE)
    \/ Restart

SpecCache == Init /\ [][NextCache]_vars

\* ---------------------------------------------------------------- claims
\* the documents of identity id, read off the collection itself
DocsOf(coll, id) == {i \in DOMAIN coll : coll[i].chat_id = id}
HasRecord(coll, id) == DocsOf(coll, id) # {}
Rec(coll, id) == coll[CHOOSE i \in DOMAIN coll : coll[i].chat_id = id]
StatusOf(coll, id) == IF HasRecord(coll, id) THEN Rec(coll, id).status ELSE "unknown"

\* this step delivers an update to the handler h
Delivers(h) == nEvents' = nEvents + 1 /\ cur'.handler = h

\* a contact share sent by u whose contact is c is handled in this step
OnContact(u, c) ==
    \/ handle_contact_reject(u, c)
    \/ \E p \in Phones, t \in 1..MaxTime : handle_contact(u, c, p, t, TRUE)

\* C1: after any sequence of entry and contact-share events, from any
\* senders, in one run of the process or over several, the users collection
\* holds at most one document per chat identity.
C1_OneRecordPerIdentity ==
    \A id \in Ids : Cardinality(DocsOf(users, id)) <= 1

\* C1 witness: the last of MaxEvents updates was /start of an identity that
\* has its record.
C1_Witness ==
    /\ cur.handler = "start" /\ cur.pc = "done" /\ cur.branch = "pending"
    /\ Cardinality(DocsOf(users, cur.user)) = 1
    /\ nEvents = MaxEvents

\* C2: a contact share whose contact identity differs from the sender's is
\* answered with the warning and changes no user document and no cache
\* entry, whatever the records of the two identities are.
C2_MismatchChangesNothing ==
    [][Delivers("handle_contact") => \A u \in Ids, c \in ContactIds :
          (c # u /\ OnContact(u, c)) =>
             /\ users' = users
             /\ user_cache' = user_cache
             /\ cur'.pc = "send" /\ cur'.pending = OwnContactWarning]_vars

\* C2 witness: the warning was sent for a contact share, received when
\* every identity had a record.
C2_Witness ==
    /\ cur.handler = "handle_contact" /\ cur.branch = "mismatch"
    /\ cur.pc = "done" /\ cur.replies = <<OwnContactWarning>>
    /\ \A id \in Ids : HasRecord(users, id)

\* C3: /start of an identity without a record inserts exactly one document,
\* with status pending_contact, and prompts for the contact once; /start of
\* an identity whose record is pending_contact takes the pending branch:
\* no insert, no contact prompt, the instruction to complete registration.
C3_OneInsertOnePrompt ==
    /\ [][Delivers("start") => \A u \in Ids : start(u, TRUE) =>
            /\ StatusOf(users, u) = "unknown" =>
                 /\ Len(users') = Len(users) + 1
                 /\ SubSeq(users', 1, Len(users)) = users
                 /\ users'[Len(users')] = NewUser(u)
                 /\ cur'.inserts = 1
                 /\ cur'.pc = "send" /\ cur'.pending = ContactRequest
            /\ StatusOf(users, u) = "pending_contact" =>
                 /\ users' = users
                 /\ cur'.inserts = 0
                 /\ cur'.branch = "pending"
                 /\ cur'.pc = "send" /\ cur'.pending = CompleteRegistration]_vars
    /\ [](cur.handler = "start" /\ cur.pc = "done" =>
            /\ cur.replies = <<cur.pending>>
            /\ cur.inserts <= 1)

\* C3 witness: the second /start of an identity was answered from the
\* pending branch, the collection holding the one document of the first.
C3_Witness ==
    /\ cur.handler = "start" /\ cur.pc = "done" /\ cur.branch = "pending"
    /\ cur.replies = <<CompleteRegistration>>
    /\ nEvents = 2 /\ Len(users) = 1

\* C4: a contact share of the sender's own contact, for an identity whose
\* record is pending_contact, makes the record verified with the shared
\* phone number and the time of the update, puts the updated document in
\* the identity's cache entry and replies with the success confirmation.
C4_ContactVerifies ==
    [][Delivers("handle_contact") =>
       \A u \in Ids, p \in Phones, t \in 1..MaxTime :
          (StatusOf(users, u) = "pending_contact"
             /\ handle_contact(u, u, p, t, TRUE)) =>
             /\ Len(users') = Len(users)
             /\ Rec(users', u) = [chat_id |-> u, status |-> "verified",
                                  phone_number |-> p, phone_verified_at |-> t]
             /\ \A id \in Ids \ {u} :
                   DocsOf(users', id) = DocsOf(users, id)
                   /\ (HasRecord(users, id) => Rec(users', id) = Rec(users, id))
             /\ u \in DOMAIN user_cache'
             /\ user_cache'[u] = Rec(users', u)
             /\ cur'.pc = "send" /\ cur'.pending = VerificationSuccess]_vars

\* C4 witness: /start then the contact share: the record is verified and
\* the confirmation was sent.
C4_Witness ==
    /\ cur.handler = "handle_contact" /\ cur.branch = "success"
    /\ cur.pc = "done" /\ cur.replies = <<VerificationSuccess>>
    /\ nEvents = 2
    /\ StatusOf(users, cur.user) = "verified"
    /\ Rec(users, cur.user).phone_number = cur.phone

\* C5: in a run of the process, once a contact share of identity X
\* succeeded, every /start of X is answered from the cache branch with the
\* personalised welcome and reads no document of the users collection.
C5_CachedWelcomeNoRead ==
    /\ [][Delivers("start") =>
          \A u \in Ids : (u \in confirmed /\ start(u, TRUE)) =>
            /\ cur'.branch = "cache"
            /\ cur'.reads = 0
            /\ cur'.pc = "send" /\ cur'.pending = Welcome(u)
            /\ users' = users]_vars
    /\ [](cur.handler = "start" /\ cur.pc = "done" /\ cur.user \in confirmed =>
            cur.replies = <<Welcome(cur.user)>> /\ cur.reads = 0)

\* C5 witness: /start, the contact share, /start again: the welcome was
\* sent from the cache branch.
C5_Witness ==
    /\ cur.handler = "start" /\ cur.pc = "done" /\ cur.branch = "cache"
    /\ cur.user \in confirmed
    /\ cur.replies = <<Welcome(cur.user)>>
    /\ cur.reads = 0

\* the cache entry of some identity is created or overwritten in this step
CacheWritten ==
    \E id \in DOMAIN user_cache' :
        id \notin DOMAIN user_cache \/ user_cache'[id] # user_cache[id]

\* C6: an identity that has a cache entry has a record in the store whose
\* status is verified; the only steps that write a cache entry are /start
\* in its already-registered branch and the contact share that modified
\* the record.
C6_CacheOnlyVerified ==
    /\ [](\A id \in DOMAIN user_cache : StatusOf(users, id) = "verified")
    /\ [][CacheWritten =>
            \/ \E u \in Ids :
                  /\ start(u, TRUE)
                  /\ StatusOf(users, u) = "verified"
                  /\ cur'.branch = "registered"
            \/ \E u \in Ids, p \in Phones, t \in 1..MaxTime :
                  /\ handle_contact(u, u, p, t, TRUE)
                  /\ cur'.branch = "success"]_vars

\* C6 witness: after a restart, /start of a verified identity went through
\* the already-registered branch and filled the cache.
C6_Witness ==
    /\ cur.handler = "start" /\ cur.pc = "done" /\ cur.branch = "registered"
    /\ cur.user \in DOMAIN user_cache
    /\ cur.user \notin confirmed

\* C7: a contact share of the sender's own contact, for an identity without
\* a record, changes no document, creates no document and no cache entry
\* and replies that verification failed; a user document is created only
\* by the insert of /start.
C7_NoRecordNoVerification ==
    /\ [][Delivers("handle_contact") =>
          \A u \in Ids, p \in Phones, t \in 1..MaxTime :
            (~HasRecord(users, u) /\ handle_contact(u, u, p, t, TRUE)) =>
               /\ users' = users
               /\ user_cache' = user_cache
               /\ cur'.pc = "send" /\ cur'.pending = VerificationFailed]_vars
    /\ [][Len(users') > Len(users) =>
            \E u \in Ids : start(u, TRUE) /\ cur'.branch = "new"]_vars

\* C7 witness: the failure reply was sent to an identity that has no record.
C7_Witness ==
    /\ cur.handler = "handle_contact" /\ cur.pc = "done"
    /\ cur.branch = "failed"
    /\ cur.replies = <<VerificationFailed>>
    /\ ~HasRecord(users, cur.user)
    /\ users # <<>>

\* C8: when a write to the users collection fails in the entry or the
\* contact handler (a write error, a duplicate key), the handler does not
\* raise and the user is sent a failure message.
C8_StoreFailureReported ==
    (cur.handler \in {"start", "handle_contact"} /\ cur.pc = "done"
        /\ cur.fault = "store_write") =>
       ~cur.raised /\ Len(cur.replies) = 1

\* C9: in the text, file and search handlers a failed backend call is
\* caught in the handler, the user is sent the apology and no document is
\* written for the event.
C9_BackendFailureCaught ==
    /\ (cur.pc = "done" /\ cur.fault = "backend") =>
          ~cur.raised /\ Len(cur.replies) = 1 /\ cur.wrote = 0
    /\ (finished.pc = "done" /\ finished.fault = "backend") =>
          finished.replies = <<MessageApology>> /\ finished.wrote = 0

\* the fixed texts of the failure paths of the interaction handlers
FailureTexts == {MessageApology, FileApology, UnsupportedFile, SearchUsage}

\* C10: a text, file or search event whose handling sent one of the failure
\* texts, also after a failed send of the reply or of the follow-up, has
\* written no document.
C10_NoWriteOnFailure ==
    /\ (\E k \in DOMAIN cur.replies : cur.replies[k] \in FailureTexts) =>
          cur.wrote = 0
    /\ (\E k \in DOMAIN finished.replies : finished.replies[k] \in FailureTexts) =>
          finished.wrote = 0

\* the replies of a task hold the follow-up text
HasFollowUp(task) == \E k \in DOMAIN task.replies : task.replies[k] = FollowUp

\* the task of update id has sent its reply and not yet the follow-up
Sleeping(id) ==
    \E i \in DOMAIN tasks : tasks[i].update_id = id /\ tasks[i].pc = "sleep"

\* C11: a text task whose reply was sent does not stay before its follow-up
\* for ever, and it leaves that point only by sending the follow-up, as the
\* second message of that same task, after its reply; a task still running
\* has not sent it, and a task whose backend call or reply failed never
\* sends it.
C11_FollowUpAfterReply ==
    /\ \A id \in 1..MaxEvents : <>[]~Sleeping(id)
    /\ [][\A id \in 1..MaxEvents : (Sleeping(id) /\ ~Sleeping(id)') =>
            /\ finished'.update_id = id /\ finished'.pc = "done"
            /\ finished'.replies = <<finished'.response, FollowUp>>]_vars
    /\ [](\A i \in DOMAIN tasks :
            /\ ~HasFollowUp(tasks[i])
            /\ tasks[i].pc = "sleep" =>
                  tasks[i].replies = <<tasks[i].response>>)
    /\ [](HasFollowUp(finished) =>
            /\ finished.replies = <<finished.response, FollowUp>>
            /\ finished.wrote = 1
            /\ finished.fault = "none")
    /\ [](finished.fault \in {"backend", "send"} => ~HasFollowUp(finished))

\* C11 witness: a task sent its reply and then the follow-up while the task
\* of a later message was still running.
C11_Witness ==
    /\ finished.pc = "done"
    /\ finished.replies = <<finished.response, FollowUp>>
    /\ tasks # <<>>
    /\ \A i \in DOMAIN tasks : tasks[i].update_id > finished.update_id

\* some text task awaits the backend or the end of its delay
Outstanding == \E i \in DOMAIN tasks : tasks[i].pc \in {"backend", "sleep"}

\* C12: the step that delivers a text message ends the handler at once,
\* with the new task appended and not yet run; while text tasks are
\* outstanding, an update of every type from every sender can be delivered
\* as soon as the previous handler returned, and a handler that was
\* delivered can take each of its steps up to its return.
C12_LoopNotBlocked ==
    /\ [][Delivers("handle_message") =>
            /\ cur'.pc = "done" /\ cur'.replies = <<>>
            /\ Len(tasks') = Len(tasks) + 1
            /\ SubSeq(tasks', 1, Len(tasks)) = tasks
            /\ tasks'[Len(tasks')].pc = "backend"
            /\ tasks'[Len(tasks')].user_id = cur'.user
            /\ chat_history' = chat_history
            /\ finished' = finished]_vars
    /\ []((Outstanding /\ cur.pc \in {"idle", "done"} /\ nEvents < MaxEvents) =>
            \A u \in Ids :
               /\ ENABLED start(u, TRUE)
               /\ \A c \in ContactIds : ENABLED OnContact(u, c)
               /\ \A t \in Texts : ENABLED handle_message(u, t)
               /\ \A k \in Kinds : ENABLED handle_files(u, k)
               /\ \A a \in SearchTexts : ENABLED handle_websearch(u, a))
    /\ [](Outstanding =>
            /\ cur.pc = "send" => ENABLED SendDone(TRUE)
            /\ cur.pc = "download" => ENABLED FilesDownload(TRUE)
            /\ cur.pc = "backend" =>
                  \A r \in BackendResults :
                     ENABLED (FilesBackend(r) \/ SearchBackend(r)))

\* C12 witness: with the task of a user's first message in its delay and the
\* task of the same user's second message awaiting the backend, a third
\* update of another type was handled up to its reply.
C12_Witness ==
    /\ cur.handler \notin {"none", "handle_message"}
    /\ cur.pc = "done" /\ cur.replies # <<>>
    /\ \E i, j \in DOMAIN tasks :
          /\ i < j /\ tasks[i].user_id = tasks[j].user_id
          /\ tasks[i].pc = "sleep" /\ tasks[j].pc = "backend"

RECURSIVE Spaces(_)
\* the string of n spaces
Spaces(n) == IF n = 0 THEN "" ELSE " " \o Spaces(n - 1)

\* the string is empty or consists only of whitespace
IsBlank(str) == \E n \in 0..MaxLen : str = Spaces(n)

\* the text is empty or consists only of whitespace
AllWhitespace(text) == \A k \in DOMAIN text : text[k] \in Whitespace

RECURSIVE ConcatFirst(_, _)
\* the first n parts, concatenated in order
ConcatFirst(parts, n) ==
    IF n = 0 THEN "" ELSE ConcatFirst(parts, n - 1) \o parts[n]

\* the pairs <<backend response, extracted text>> of the state: the text
\* the search, the file handler or the text task stored for the response
\* it received
Extractions ==
    {<<cur.raw_response, searches[k].result>> : k \in DOMAIN searches}
    \cup {<<cur.raw_response, files[k].analysis>> : k \in DOMAIN files}
    \cup {<<tasks[i].raw_response, tasks[i].response>> :
             i \in {j \in DOMAIN tasks : tasks[j].wrote = 1}}
    \cup {<<finished.raw_response, finished.response>> :
             x \in {y \in {1} : finished.wrote = 1}}

\* C14: the text extracted from a response without candidates is the
\* placeholder; from any other response it is the parts of the first
\* candidate concatenated in order, the same text as if the response had
\* that candidate alone.
C14_ExtractFirstCandidate ==
    \A e \in Extractions :
        LET candidates == e[1].candidates
        IN  /\ candidates = <<>> => e[2] = "No candidates returned."
            /\ candidates # <<>> =>
                  /\ e[2] = ConcatFirst(candidates[1], Len(candidates[1]))
                  /\ e[2] = extract_text_from_candidates(
                                [e[1] EXCEPT !.candidates = <<candidates[1]>>])

\* C14 witness: a response of two candidates of two parts each was
\* extracted to the two parts of the first.
C14_Witness ==
    \E e \in Extractions :
        /\ Len(e[1].candidates) = 2
        /\ e[1].candidates[1] = <<"A", "B">>
        /\ e[1].candidates[2] = <<"B", "A">>
        /\ e[2] = "AB"

\* the handlers of text, file and search updates
InteractionHandlers == {"handle_message", "handle_files", "handle_websearch"}

\* this step belongs to the handling of a text, file or search update: its
\* delivery, a later step of its handler, or a step of a text task
InteractionStep ==
    \/ nEvents' = nEvents + 1 /\ cur'.handler \in InteractionHandlers
    \/ nEvents' = nEvents /\ cur.handler \in InteractionHandlers /\ cur' # cur
    \/ tasks' # tasks
    \/ finished' # finished

\* the registration states of an identity
Statuses == {"unknown", "pending_contact", "verified"}

\* C15: no step of the text, file or search handling changes the users
\* collection or the cache, and none reads the users collection; a text,
\* file or search update of a sender in any registration state goes on to
\* the backend call exactly as its content says; the record stored and the
\* reply sent are those of the sender, the content and the backend's
\* answer alone.
C15_NotGated ==
    /\ [][InteractionStep => users' = users /\ user_cache' = user_cache]_vars
    /\ [](cur.handler \in InteractionHandlers =>
            cur.reads = 0 /\ cur.inserts = 0)
    /\ [][nEvents' = nEvents + 1 =>
          \A u \in Ids, st \in Statuses : StatusOf(users, u) = st =>
            /\ \A t \in Texts : handle_message(u, t) =>
                  /\ Len(tasks') = Len(tasks) + 1
                  /\ tasks'[Len(tasks')].user_id = u
                  /\ tasks'[Len(tasks')].user_message = t
                  /\ tasks'[Len(tasks')].pc = "backend"
                  /\ cur'.replies = <<>> /\ cur'.pending = ""
            /\ \A k \in Kinds : handle_files(u, k) =>
                  IF k = "other"
                  THEN cur'.pc = "send" /\ cur'.pending = UnsupportedFile
                  ELSE cur'.pc = "download" /\ cur'.input = k
            /\ \A x \in SearchTexts : handle_websearch(u, x) =>
                  IF Split(x) = <<>>
                  THEN cur'.pc = "send" /\ cur'.pending = SearchUsage
                  ELSE cur'.pc = "backend"
                       /\ cur'.input = JoinWith(" ", Split(x))]_vars
    /\ []((cur.handler = "handle_files" /\ cur.wrote = 1) =>
            /\ files[Len(files)].user_id = cur.user
            /\ files[Len(files)].filename = FilePath(cur.input)
            /\ cur.pending = "Analysis Result:\n" \o files[Len(files)].analysis
            /\ cur.pc = "done" => cur.replies = <<cur.pending>>)
    /\ []((cur.handler = "handle_websearch" /\ cur.wrote = 1) =>
            /\ searches[Len(searches)].user_id = cur.user
            /\ searches[Len(searches)].query = cur.input
            /\ cur.pending =
                  "Search Results:\n" \o searches[Len(searches)].result
            /\ cur.pc = "done" => cur.replies = <<cur.pending>>)
    /\ [](finished.wrote = 1 =>
            /\ \E k \in DOMAIN chat_history :
                  chat_history[k] = [user_id  |-> finished.user_id,
                                     input    |-> finished.user_message,
                                     response |-> finished.response]
            /\ finished.replies = <<finished.response, FollowUp>>)

\* C15 witness: the text messages of two senders in different registration
\* states were stored with the same input and the same response.
C15_Witness ==
    \E i, j \in DOMAIN chat_history :
        /\ i # j
        /\ chat_history[i].input = chat_history[j].input
        /\ chat_history[i].response = chat_history[j].response
        /\ StatusOf(users, chat_history[i].user_id)
              # StatusOf(users, chat_history[j].user_id)
        /\ tasks = <<>>

\* C16: every write of a cache entry happens in the step that delivered
\* the update to start or handle_contact, the step in which the handler
\* read the cache and read or updated the users collection, before the
\* handler's first await; the entry written is the record as the store
\* holds it at the end of that step.  No step after an await of a handler
\* and no step of a text task changes the cache or the users collection.
C16_ReadWriteOneStep ==
    /\ [][CacheWritten =>
            /\ nEvents' = nEvents + 1
            /\ cur'.handler \in {"start", "handle_contact"}
            /\ cur'.pc = "send" /\ cur'.replies = <<>>
            /\ cur'.reads = 1
            /\ cur'.user \in DOMAIN user_cache'
            /\ user_cache'[cur'.user] = Rec(users', cur'.user)
            /\ \A id \in DOMAIN user_cache :
                  id # cur'.user => user_cache'[id] = user_cache[id]]_vars
    /\ [][nEvents' = nEvents + 1 => \A u \in Ids :
            /\ (/\ u \notin DOMAIN user_cache
                /\ StatusOf(users, u) = "verified"
                /\ start(u, TRUE)) =>
                  /\ u \in DOMAIN user_cache'
                  /\ user_cache'[u] = Rec(users, u)
            /\ (/\ users' # users
                /\ \E p \in Phones, t \in 1..MaxTime :
                      handle_contact(u, u, p, t, TRUE)) =>
                  /\ u \in DOMAIN user_cache'
                  /\ user_cache'[u] = Rec(users', u)]_vars
    /\ [][(nEvents' = nEvents /\ cur' # Idle) =>
            /\ user_cache' = user_cache
            /\ users' = users]_vars

\* C16 witness: with the task of a text message between its reply and its
\* follow-up, the contact share of the sender updated the record and wrote
\* the cache entry, and its confirmation was sent afterwards.
C16_Witness ==
    /\ cur.handler = "handle_contact" /\ cur.branch = "success"
    /\ cur.pc = "done" /\ cur.reads = 1
    /\ cur.user \in DOMAIN user_cache
    /\ user_cache[cur.user] = Rec(users, cur.user)
    /\ \E i \in DOMAIN tasks :
          tasks[i].pc = "sleep" /\ tasks[i].user_id = cur.user

\* the order of the registration states
Rank(status) ==
    IF status = "unknown" THEN 0
    ELSE IF status = "pending_contact" THEN 1
    ELSE IF status = "verified" THEN 2
    ELSE 3

\* C17: every stored record has status pending_contact or verified; no
\* step of any handler or task removes a record; a step changes the status
\* of an identity only from no record to pending_contact or from
\* pending_contact to verified, so a verified record stays verified.
C17_StatusOnlyForward ==
    /\ [](\A k \in DOMAIN users :
            users[k].status \in {"pending_contact", "verified"})
    /\ [][users' # users =>
            /\ Len(users') >= Len(users)
            /\ \A id \in Ids :
                  /\ HasRecord(users, id) => HasRecord(users', id)
                  /\ StatusOf(users, id) = "verified" =>
                        StatusOf(users', id) = "verified"
                  /\ StatusOf(users', id) # StatusOf(users, id) =>
                        Rank(StatusOf(users', id))
                           = Rank(StatusOf(users, id)) + 1]_vars

\* C17 witness: after MaxEvents updates one identity is verified and
\* another has a pending_contact record.
C17_Witness ==
    /\ nEvents = MaxEvents /\ cur.pc = "done"
    /\ \E a, b \in Ids :
          /\ StatusOf(users, a) = "verified"
          /\ StatusOf(users, b) = "pending_contact"

\* C18: the cache entry of an identity, when present, is the record of
\* that identity in the users collection; a step that changes the record
\* of an identity that has a cache entry leaves the changed record in the
\* entry.
C18_CacheEqualsRecord ==
    /\ [](\A id \in DOMAIN user_cache :
            /\ HasRecord(users, id)
            /\ user_cache[id] = Rec(users, id))
    /\ [][\A id \in DOMAIN user_cache :
            Rec(users', id) # Rec(users, id) =>
               /\ id \in DOMAIN user_cache'
               /\ user_cache'[id] # user_cache[id]
               /\ user_cache'[id] = Rec(users', id)]_vars

\* C18 witness: the third update of the identity, a contact share with the
\* last phone number at the last time, was confirmed, and the cache entry
\* holds that number and that time.
C18_Witness ==
    /\ cur.handler = "handle_contact" /\ cur.branch = "success"
    /\ cur.pc = "done" /\ nEvents = 3 /\ Len(users) = 1
    /\ cur.user \in DOMAIN user_cache
    /\ user_cache[cur.user].phone_number = MaxPhone
    /\ user_cache[cur.user].phone_verified_at = MaxTime
    /\ user_cache[cur.user] = Rec(users, cur.user)

\* C19: a contact share of the sender's own contact, for an identity whose
\* record is verified, at a time later than the record's verification
\* time, sets the record's phone number to the shared one and its
\* verification time to the time of the update, leaves the status
\* verified, puts the updated record in the cache entry and replies with
\* the success confirmation.
C19_RepeatContactSucceeds ==
    [][Delivers("handle_contact") =>
       \A u \in Ids, p \in Phones, t \in 1..MaxTime :
          (/\ StatusOf(users, u) = "verified"
           /\ t > Rec(users, u).phone_verified_at
           /\ handle_contact(u, u, p, t, TRUE)) =>
             /\ Rec(users', u) = [chat_id |-> u, status |-> "verified",
                                  phone_number |-> p, phone_verified_at |-> t]
             /\ Len(users') = Len(users)
             /\ u \in DOMAIN user_cache'
             /\ user_cache'[u] = Rec(users', u)
             /\ cur'.branch = "success"
             /\ cur'.pc = "send" /\ cur'.pending = VerificationSuccess]_vars

\* C19 witness: /start and two contact shares of one identity: the second
\* share was confirmed, after the first, with the record verified at the
\* later time.
C19_Witness ==
    /\ cur.handler = "handle_contact" /\ cur.branch = "success"
    /\ cur.pc = "done" /\ cur.replies = <<VerificationSuccess>>
    /\ nEvents = 3 /\ Len(users) = 1 /\ cur.user \in confirmed
    /\ Rec(users, cur.user).status = "verified"
    /\ Rec(users, cur.user).phone_verified_at = now
    /\ now > 1

====
